---- MODULE Spec2Model ----
(***************************************************************************)
(* Model of static/index.js: the browser client of the team overlay.       *)
(* The connection manager (connect and the four WebSocket handlers), the   *)
(* reconnect timer, and the renderer (updateTeam and the per-image         *)
(* onerror fallback chain).                                                *)
(***************************************************************************)
EXTENDS Integers, Sequences, FiniteSets, TLC

(* ------------------------------ bounds --------------------------------- *)
\* WebSockets the page constructs before the server stops dropping them.
MaxSockets == 3
\* Messages the server pushes during one run.
MaxMessages == 2
\* Milliseconds by which one step of the clock advances.
TickStep == 1000
\* Longest roster array handed to updateTeam in SpecRender.
MaxLen == 7

(* -------------------------- program constants -------------------------- *)
\* setTimeout(connect, 2000)
ReconnectDelay == 2000
\* for (let i = 0; i < 6; i++)
SlotCount == 6

(* ------------------------------ state ---------------------------------- *)
VARIABLES
    location,    \* window.location: [protocol, host]
    sockets,     \* every WebSocket constructed so far, in creation order
    ws,          \* the global ws: index into sockets of the latest one
    timers,      \* pending setTimeout(connect, 2000) callbacks
    cards,       \* every card element created so far (attached or detached)
    teamGridEl,  \* children of the grid element: indices into cards
    event,       \* the MessageEvent most recently dispatched
    received,    \* number of message events dispatched
    pokemon,     \* argument of the most recent updateTeam call
    error        \* what the most recent handler run threw ("none" if nothing)

vars == <<location, sockets, ws, timers, cards, teamGridEl, event, received,
          pokemon, error>>

connVars == <<location, sockets, ws, timers>>
gridVars == <<cards, teamGridEl>>
msgVars == <<event, received, pokemon, error>>

(* --------------------------- JavaScript values ------------------------- *)
\* The value undefined of a property that is absent.  Names and nicknames
\* of the model never spell this token.
undefined == "<undefined>"

\* A roster entry is undefined (a hole or an index past the end), null, or
\* an object with optional name and nickname.
Undef == [kind |-> "undefined", name |-> undefined, nickname |-> undefined]
Null == [kind |-> "null", name |-> undefined, nickname |-> undefined]
Obj(n, k) == [kind |-> "object", name |-> n, nickname |-> k]

\* A value of data.pokemon: absent, or an array of entries.
NoArray == [kind |-> "undefined", items |-> <<>>]
Array(s) == [kind |-> "array", items |-> s]

\* pokemon[i] for a 0-based index i: undefined past the end of the array.
At(p, i) == IF i + 1 <= Len(p.items) THEN p.items[i + 1] ELSE Undef

\* x || "" for a string-or-undefined property value.
OrEmpty(x) == IF x = undefined \/ x = "" THEN "" ELSE x

(* ------------------------------ renderer ------------------------------- *)
\* `/sprites/${pokemonName}.png` and its siblings, as the pieces of the
\* template literal.
SpriteUrl(name, ext) == <<"/sprites/", name, ext>>

\* this.src.endsWith(".png")
EndsWith(src, ext) == src[Len(src)] = ext

\* document.createElement("img") with src, alt and onerror set.  requests is
\* the list of URLs the element has asked the network for, errors the list of
\* URLs whose load failed, loading whether a load is in progress.
NewImg(pokemonName) ==
    [src |-> SpriteUrl(pokemonName, ".png"),
     alt |-> pokemonName,
     display |-> "",
     requests |-> <<SpriteUrl(pokemonName, ".png")>>,
     errors |-> <<>>,
     loading |-> TRUE]

\* Card with the label computed as pokemonNickname || (isEmpty ? "Empty Slot"
\* : pokemonName).
CardNicknameFirst(e, i) ==
    LET pokemonName == OrEmpty(e.name)
        pokemonNickname == OrEmpty(e.nickname)
        isEmpty == pokemonName = ""
    IN  [className |-> <<"pokemon-card", IF isEmpty THEN "empty" ELSE "", "fade-in">>,
         animationDelay |-> i,
         pokemonName |-> pokemonName,
         spriteContainer |->
            [className |-> <<"sprite-container", IF isEmpty THEN "empty" ELSE "">>,
             classList |-> IF isEmpty THEN {"sprite-container", "empty"}
                                      ELSE {"sprite-container"},
             children |-> IF isEmpty THEN <<>> ELSE <<NewImg(pokemonName)>>],
         nameEl |->
            [className |-> <<"pokemon-name", IF isEmpty THEN "empty" ELSE "">>,
             textContent |-> IF pokemonNickname # "" THEN pokemonNickname
                             ELSE IF isEmpty THEN "Empty Slot"
                             ELSE pokemonName]]

\* The body of one iteration of the loop, past the two property reads:
\* the card built for entry e at index i.
Card(e, i) ==
    LET pokemonName == OrEmpty(e.name)
        pokemonNickname == OrEmpty(e.nickname)
        isEmpty == pokemonName = ""
    IN  [className |-> <<"pokemon-card", IF isEmpty THEN "empty" ELSE "", "fade-in">>,
         animationDelay |-> i,
         pokemonName |-> pokemonName,
         spriteContainer |->
            [className |-> <<"sprite-container", IF isEmpty THEN "empty" ELSE "">>,
             classList |-> IF isEmpty THEN {"sprite-container", "empty"}
                                      ELSE {"sprite-container"},
             children |-> IF isEmpty THEN <<>> ELSE <<NewImg(pokemonName)>>],
         nameEl |->
            [className |-> <<"pokemon-name", IF isEmpty THEN "empty" ELSE "">>,
             textContent |-> IF isEmpty THEN "Empty Slot"
                             ELSE IF pokemonNickname # "" THEN pokemonNickname
                             ELSE pokemonName]]

\* ReadThrows as pokemon[i]?.name would behave on null and undefined entries
\* of an array: only a missing array throws.
ReadThrowsOptionalChain(p, i) == p.kind # "array"

\* pokemon[i].name throws a TypeError when pokemon itself or pokemon[i] is
\* undefined or null.
ReadThrows(p, i) == p.kind # "array" \/ At(p, i).kind # "object"

\* The for loop from index i on: st is [cards, grid, threw].
RECURSIVE Loop(_, _, _)
Loop(p, i, st) ==
    IF i >= SlotCount THEN st
    ELSE IF ReadThrows(p, i) THEN [st EXCEPT !.threw = TRUE]
    ELSE Loop(p, i + 1,
              [st EXCEPT !.cards = Append(@, Card(At(p, i), i)),
                         !.grid = Append(@, Len(st.cards) + 1)])

\* updateTeam without the line teamGridEl.innerHTML = "": the cards already
\* in the pool stay in the grid.
updateTeamNoClear(p, cs) ==
    Loop(p, 0, [cards |-> cs, grid |-> [j \in 1..Len(cs) |-> j], threw |-> FALSE])

\* updateTeam(pokemon) run on the card pool cs: the grid is cleared, then the
\* loop appends cards until it ends or throws.
updateTeam(p, cs) == Loop(p, 0, [cards |-> cs, grid |-> <<>>, threw |-> FALSE])

\* img.onerror whose last branch hides the image but leaves the sprite
\* container unmarked.
onerror_imgUnmarked(c) ==
    LET img == c.spriteContainer.children[1]
        failed == [img EXCEPT !.errors = Append(@, img.src)]
        retry(ext) == [failed EXCEPT !.src = SpriteUrl(c.pokemonName, ext),
                                     !.requests = Append(@, SpriteUrl(c.pokemonName, ext))]
    IN  IF EndsWith(img.src, ".png")
        THEN [c EXCEPT !.spriteContainer.children = <<retry(".gif")>>]
        ELSE IF EndsWith(img.src, ".gif")
        THEN [c EXCEPT !.spriteContainer.children = <<retry(".jpg")>>]
        ELSE [c EXCEPT !.spriteContainer.children =
                            <<[failed EXCEPT !.display = "none", !.loading = FALSE]>>]

\* img.onerror whose last branch also relabels the card as an empty slot.
onerror_imgRelabels(c) ==
    LET img == c.spriteContainer.children[1]
        failed == [img EXCEPT !.errors = Append(@, img.src)]
        retry(ext) == [failed EXCEPT !.src = SpriteUrl(c.pokemonName, ext),
                                     !.requests = Append(@, SpriteUrl(c.pokemonName, ext))]
    IN  IF EndsWith(img.src, ".png")
        THEN [c EXCEPT !.spriteContainer.children = <<retry(".gif")>>]
        ELSE IF EndsWith(img.src, ".gif")
        THEN [c EXCEPT !.spriteContainer.children = <<retry(".jpg")>>]
        ELSE [c EXCEPT !.spriteContainer.children =
                            <<[failed EXCEPT !.display = "none", !.loading = FALSE]>>,
                       !.spriteContainer.classList = @ \cup {"empty"},
                       !.nameEl.textContent = "Empty Slot"]

\* img.onerror that tries jpg before gif.
onerror_imgJpgFirst(c) ==
    LET img == c.spriteContainer.children[1]
        failed == [img EXCEPT !.errors = Append(@, img.src)]
        retry(ext) == [failed EXCEPT !.src = SpriteUrl(c.pokemonName, ext),
                                     !.requests = Append(@, SpriteUrl(c.pokemonName, ext))]
    IN  IF EndsWith(img.src, ".png")
        THEN [c EXCEPT !.spriteContainer.children = <<retry(".jpg")>>]
        ELSE IF EndsWith(img.src, ".jpg")
        THEN [c EXCEPT !.spriteContainer.children = <<retry(".gif")>>]
        ELSE [c EXCEPT !.spriteContainer.children =
                            <<[failed EXCEPT !.display = "none", !.loading = FALSE]>>,
                       !.spriteContainer.classList = @ \cup {"empty"}]

\* img.onerror for the image of card c.
onerror_img(c) ==
    LET img == c.spriteContainer.children[1]
        failed == [img EXCEPT !.errors = Append(@, img.src)]
        retry(ext) == [failed EXCEPT !.src = SpriteUrl(c.pokemonName, ext),
                                     !.requests = Append(@, SpriteUrl(c.pokemonName, ext))]
    IN  IF EndsWith(img.src, ".png")
        THEN [c EXCEPT !.spriteContainer.children = <<retry(".gif")>>]
        ELSE IF EndsWith(img.src, ".gif")
        THEN [c EXCEPT !.spriteContainer.children = <<retry(".jpg")>>]
        ELSE [c EXCEPT !.spriteContainer.children =
                            <<[failed EXCEPT !.display = "none", !.loading = FALSE]>>,
                       !.spriteContainer.classList = @ \cup {"empty"}]

(* ---------------------------- wire messages ---------------------------- *)
\* The message bodies the server (or anything else on the wire) sends.
BodyScenario == "{\"pokemon\":[{\"name\":\"pikachu\",\"nickname\":\"Sparky\"},{},{},{},{},{}]}"
BodyTwins == "{\"pokemon\":[{\"name\":\"eevee\"},{\"name\":\"eevee\",\"nickname\":\"\"},{\"name\":\"\",\"nickname\":\"Sparky\"},{},{},{}]}"
BodyShort == "{\"pokemon\":[{\"nickname\":\"Sparky\"}]}"
BodyLong == "{\"pokemon\":[{},{},{},{},{},{\"name\":\"\"},{\"name\":\"pikachu\"}]}"
BodyNoField == "{}"
BodyNullEntry == "{\"pokemon\":[{},{\"nickname\":\"Sparky\"},null,{},{},{}]}"
BodyNullData == "null"
BodyGarbage == "pikachu!"
BodyDecoy == "{\"pokemon\":[{\"name\":\"pikachu\",\"nickname\":\"Empty Slot\"},{},{},{},{},{}]}"

Bodies == {BodyScenario, BodyTwins, BodyShort, BodyLong, BodyNoField,
           BodyNullEntry, BodyNullData, BodyGarbage, BodyDecoy}

Blank == Obj(undefined, undefined)

\* JSON.parse(event.data) on the bodies above: [ok |-> FALSE] is a thrown
\* SyntaxError; otherwise kind is the kind of the parsed value and pokemon
\* its pokemon property.
JSONparse(text) ==
    CASE text = BodyScenario ->
            [ok |-> TRUE, kind |-> "object",
             pokemon |-> Array(<<Obj("pikachu", "Sparky"), Blank, Blank, Blank, Blank, Blank>>)]
      [] text = BodyTwins ->
            [ok |-> TRUE, kind |-> "object",
             pokemon |-> Array(<<Obj("eevee", undefined), Obj("eevee", ""),
                                 Obj("", "Sparky"), Blank, Blank, Blank>>)]
      [] text = BodyShort ->
            [ok |-> TRUE, kind |-> "object",
             pokemon |-> Array(<<Obj(undefined, "Sparky")>>)]
      [] text = BodyLong ->
            [ok |-> TRUE, kind |-> "object",
             pokemon |-> Array(<<Blank, Blank, Blank, Blank, Blank, Obj("", undefined),
                                 Obj("pikachu", undefined)>>)]
      [] text = BodyNoField ->
            [ok |-> TRUE, kind |-> "object", pokemon |-> NoArray]
      [] text = BodyNullEntry ->
            [ok |-> TRUE, kind |-> "object",
             pokemon |-> Array(<<Blank, Obj(undefined, "Sparky"), Null, Blank, Blank, Blank>>)]
      [] text = BodyNullData ->
            [ok |-> TRUE, kind |-> "null", pokemon |-> NoArray]
      [] text = BodyDecoy ->
            [ok |-> TRUE, kind |-> "object",
             pokemon |-> Array(<<Obj("pikachu", "Empty Slot"), Blank, Blank, Blank, Blank, Blank>>)]
      [] OTHER -> [ok |-> FALSE, kind |-> "undefined", pokemon |-> NoArray]

(* ------------------------- connection manager -------------------------- *)
\* protocol with the insecure scheme written in.
protocolAlwaysWs(loc) == "ws:"

\* window.location.protocol === "https:" ? "wss:" : "ws:"
protocol(loc) == IF loc.protocol = "https:" THEN "wss:" ELSE "ws:"

\* new WebSocket(`${protocol}//${window.location.host}/ws`), with the parts
\* of the browser's state the handlers depend on: readyState, whether the
\* connection has failed and its close event is still to come (closePending),
\* whether the close event has been dispatched, and the time since the close
\* event (saturating at ReconnectDelay).
NewWebSocket(loc) ==
    [url |-> <<protocol(loc), "//", loc.host, "/ws">>,
     readyState |-> "CONNECTING",
     closePending |-> FALSE,
     closeFired |-> FALSE,
     sinceClose |-> 0]

\* setTimeout(connect, 2000): the callback is always connect, so a pending
\* timer is its remaining delay.
setTimeout(ts, delay) == Append(ts, [left |-> delay])

\* connect(): constructs a socket, stores it in ws, installs the handlers.
connect ==
    /\ sockets' = Append(sockets, NewWebSocket(location))
    /\ ws' = Len(sockets) + 1

\* ws.onopen: logs.
onopen == UNCHANGED <<timers, gridVars, msgVars>>

\* ws.onerror that also schedules a reconnect.
onerrorReconnects ==
    /\ timers' = setTimeout(timers, ReconnectDelay)
    /\ UNCHANGED <<gridVars, msgVars>>

\* ws.onerror: logs.
onerror == UNCHANGED <<timers, gridVars, msgVars>>

\* ws.onclose calling setTimeout(connect) without a delay.
oncloseNoDelay ==
    /\ timers' = setTimeout(timers, 0)
    /\ UNCHANGED <<gridVars, msgVars>>

\* ws.onclose that gives up after the first retry.
oncloseRetryLimit ==
    /\ timers' = IF Len(sockets) < 2 THEN setTimeout(timers, ReconnectDelay) ELSE timers
    /\ UNCHANGED <<gridVars, msgVars>>

\* ws.onclose that also empties the grid while the connection is down.
oncloseClearsGrid ==
    /\ timers' = setTimeout(timers, ReconnectDelay)
    /\ teamGridEl' = <<>>
    /\ UNCHANGED <<cards, msgVars>>

\* ws.onclose: logs and schedules the reconnect.
onclose ==
    /\ timers' = setTimeout(timers, ReconnectDelay)
    /\ UNCHANGED <<gridVars, msgVars>>

\* The try block with the grid cleared before the body is parsed.
TryBlockClearsFirst(text) ==
    LET data == JSONparse(text)
    IN  IF ~data.ok
        THEN [cards |-> cards, grid |-> <<>>, pokemon |-> pokemon,
              threw |-> "SyntaxError"]
        ELSE IF data.kind # "object"
        THEN [cards |-> cards, grid |-> <<>>, pokemon |-> pokemon,
              threw |-> "TypeError"]
        ELSE LET r == updateTeam(data.pokemon, cards)
             IN  [cards |-> r.cards, grid |-> r.grid, pokemon |-> data.pokemon,
                  threw |-> IF r.threw THEN "TypeError" ELSE "none"]

\* The try block with the previous grid put back when updateTeam throws.
TryBlockRestores(text) ==
    LET data == JSONparse(text)
    IN  IF ~data.ok
        THEN [cards |-> cards, grid |-> teamGridEl, pokemon |-> pokemon,
              threw |-> "SyntaxError"]
        ELSE IF data.kind # "object"
        THEN [cards |-> cards, grid |-> teamGridEl, pokemon |-> pokemon,
              threw |-> "TypeError"]
        ELSE LET r == updateTeam(data.pokemon, cards)
             IN  [cards |-> r.cards,
                  grid |-> IF r.threw THEN teamGridEl ELSE r.grid,
                  pokemon |-> data.pokemon,
                  threw |-> IF r.threw THEN "TypeError" ELSE "none"]

\* The try block of ws.onmessage on the body text: what it leaves behind
\* and what it threw.
TryBlock(text) ==
    LET data == JSONparse(text)
    IN  IF ~data.ok
        THEN [cards |-> cards, grid |-> teamGridEl, pokemon |-> pokemon,
              threw |-> "SyntaxError"]
        ELSE IF data.kind # "object"
        THEN [cards |-> cards, grid |-> teamGridEl, pokemon |-> pokemon,
              threw |-> "TypeError"]
        ELSE LET r == updateTeam(data.pokemon, cards)
             IN  [cards |-> r.cards, grid |-> r.grid, pokemon |-> data.pokemon,
                  threw |-> IF r.threw THEN "TypeError" ELSE "none"]

\* ws.onmessage: try { parse; updateTeam } catch { log }.  error records
\* what the catch clause received; escaped is always FALSE because the catch
\* clause handles whatever the try block throws.
onmessage(text) ==
    LET r == TryBlock(text)
    IN  /\ cards' = r.cards
        /\ teamGridEl' = r.grid
        /\ pokemon' = r.pokemon
        /\ error' = [thrown |-> r.threw, escaped |-> FALSE]
        /\ event' = [data |-> text]
        /\ received' = received + 1
        /\ UNCHANGED timers

(* ------------------------------- events -------------------------------- *)
\* The open event of socket c.
Open(c) ==
    /\ sockets[c].readyState = "CONNECTING"
    /\ sockets' = [sockets EXCEPT ![c].readyState = "OPEN"]
    /\ onopen
    /\ UNCHANGED <<location, ws>>

\* A message event on socket c.
Message(c, text) ==
    /\ sockets[c].readyState = "OPEN"
    /\ received < MaxMessages
    /\ onmessage(text)
    /\ UNCHANGED <<location, sockets, ws>>

\* The error event of socket c: the browser has failed the connection, so
\* readyState is already CLOSED when the handler runs; the close event follows.
Error(c) ==
    /\ sockets[c].readyState \in {"CONNECTING", "OPEN"}
    /\ Len(sockets) < MaxSockets
    /\ sockets' = [sockets EXCEPT ![c].readyState = "CLOSED", ![c].closePending = TRUE]
    /\ onerror
    /\ UNCHANGED <<location, ws>>

\* The close event of socket c, after an error event or on its own.
Close(c) ==
    /\ ~sockets[c].closeFired
    /\ sockets[c].closePending \/ Len(sockets) < MaxSockets
    /\ sockets' = [sockets EXCEPT ![c].readyState = "CLOSED", ![c].closePending = FALSE,
                                  ![c].closeFired = TRUE]
    /\ onclose
    /\ UNCHANGED <<location, ws>>

\* The timer as setInterval(connect, 2000) would run it: it fires and stays
\* armed.
TimeoutRepeats(t) ==
    /\ timers[t].left = 0
    /\ timers' = [timers EXCEPT ![t].left = ReconnectDelay]
    /\ connect
    /\ UNCHANGED <<location, gridVars, msgVars>>

\* A reconnect timer whose delay has elapsed fires and runs connect().
Timeout(t) ==
    /\ timers[t].left = 0
    /\ timers' = [j \in 1..(Len(timers) - 1) |-> IF j < t THEN timers[j] ELSE timers[j + 1]]
    /\ connect
    /\ UNCHANGED <<location, gridVars, msgVars>>

Max(a, b) == IF a > b THEN a ELSE b
Min(a, b) == IF a < b THEN a ELSE b

\* TickStep milliseconds pass.
Tick ==
    /\ \/ \E t \in 1..Len(timers) : timers[t].left > 0
       \/ \E c \in 1..Len(sockets) :
             sockets[c].closeFired /\ sockets[c].sinceClose < ReconnectDelay
    /\ timers' = [t \in 1..Len(timers) |->
                     [left |-> Max(0, timers[t].left - TickStep)]]
    /\ sockets' = [c \in 1..Len(sockets) |->
                     IF sockets[c].closeFired
                     THEN [sockets[c] EXCEPT
                              !.sinceClose = Min(ReconnectDelay, @ + TickStep)]
                     ELSE sockets[c]]
    /\ UNCHANGED <<location, ws, gridVars, msgVars>>

\* The error event of the image of card k with a handler that finds its
\* images by name (img[alt=...]) instead of using this: every loading image
\* of that name advances.
ImgErrorByName(k) ==
    /\ cards[k].spriteContainer.children # <<>>
    /\ cards[k].spriteContainer.children[1].loading
    /\ cards' = [c \in 1..Len(cards) |->
                    IF /\ cards[c].spriteContainer.children # <<>>
                       /\ cards[c].spriteContainer.children[1].loading
                       /\ cards[c].pokemonName = cards[k].pokemonName
                    THEN onerror_img(cards[c])
                    ELSE cards[c]]
    /\ UNCHANGED <<connVars, teamGridEl, msgVars>>

\* The error event of the image of card k: its current load failed.
ImgError(k) ==
    /\ cards[k].spriteContainer.children # <<>>
    /\ cards[k].spriteContainer.children[1].loading
    /\ cards' = [cards EXCEPT ![k] = onerror_img(cards[k])]
    /\ UNCHANGED <<connVars, teamGridEl, msgVars>>

(* ---------------------------- specification ---------------------------- *)
\* The pages the script can be served on.
Locations == [protocol : {"http:", "https:"},
              host : {"localhost:8000", "127.0.0.1:8000", "overlay.example", "overlay.example:8443"}]

\* The overlay served locally over http.
HomePage == [protocol |-> "http:", host |-> "localhost:8000"]

\* The state once the script has run to its end on the page at loc:
\* teamGridEl looked up, the first connect() made.
Loaded(loc) ==
    /\ location = loc
    /\ sockets = <<NewWebSocket(loc)>>
    /\ ws = 1
    /\ timers = <<>>
    /\ cards = <<>>
    /\ teamGridEl = <<>>
    /\ event = [data |-> ""]
    /\ received = 0
    /\ pokemon = NoArray
    /\ error = [thrown |-> "none", escaped |-> FALSE]

Init == Loaded(HomePage)

Next ==
    \/ \E c \in 1..Len(sockets) : Open(c)
    \/ \E c \in 1..Len(sockets) : \E text \in Bodies : Message(c, text)
    \/ \E c \in 1..Len(sockets) : Error(c)
    \/ \E c \in 1..Len(sockets) : Close(c)
    \/ \E t \in 1..Len(timers) : Timeout(t)
    \/ Tick
    \/ \E k \in 1..Len(cards) : ImgError(k)

Spec == Init /\ [][Next]_vars

(* ------------------- updateTeam on enumerated inputs ------------------- *)
\* Entries a roster array can hold: undefined, null, and objects over every
\* combination of absent, empty and set name and nickname.
Entries == {Undef, Null} \cup
           {Obj(n, k) : n \in {undefined, "", "pikachu"}, k \in {undefined, "", "Sparky"}}

CoreEntries == {Undef, Null, Obj("pikachu", "Sparky")}

\* The arrays of length n over the set S.
ArraysOf(S, n) == {Array(s) : s \in [1..n -> S]}

\* The array of n copies of b, with d at position pos.
Patched(b, d, pos, n) == Array([j \in 1..n |-> IF j = pos THEN d ELSE b])

\* The arguments updateTeam is applied to: an absent or null value, every
\* array up to MaxLen over CoreEntries, and every uniform array with one
\* deviating entry.
RenderInputs ==
    {NoArray, [kind |-> "null", items |-> <<>>]}
    \cup UNION {ArraysOf(CoreEntries, n) : n \in 0..MaxLen}
    \cup {Patched(b, d, pos, n) : b \in Entries, d \in Entries, pos \in 1..MaxLen, n \in 1..MaxLen}

\* The cards of a grid that an earlier message rendered.
Rendered(text) == updateTeam(JSONparse(text).pokemon, <<>>)

\* A page with an open socket, an empty or an already rendered grid, and an
\* argument about to be handed to updateTeam.
InitRender ==
    /\ location = HomePage
    /\ sockets = <<[NewWebSocket(location) EXCEPT !.readyState = "OPEN"]>>
    /\ ws = 1
    /\ timers = <<>>
    /\ \/ cards = <<>> /\ teamGridEl = <<>>
       \/ cards = Rendered(BodyScenario).cards /\ teamGridEl = Rendered(BodyScenario).grid
    /\ event = [data |-> ""]
    /\ received = 0
    /\ pokemon \in RenderInputs
    /\ error = [thrown |-> "none", escaped |-> FALSE]

\* One call updateTeam(pokemon) made directly: whatever it throws reaches
\* the caller.
Render ==
    /\ received = 0
    /\ LET r == updateTeam(pokemon, cards)
       IN  /\ cards' = r.cards
           /\ teamGridEl' = r.grid
           /\ error' = [thrown |-> IF r.threw THEN "TypeError" ELSE "none",
                        escaped |-> r.threw]
    /\ received' = 1
    /\ UNCHANGED <<connVars, event, pokemon>>

NextRender == Render

SpecRender == InitRender /\ [][NextRender]_vars

\* The connection manager alone, on every page of Locations: no message
\* arrives.
InitConnect == \E loc \in Locations : Loaded(loc)

NextConnect ==
    \/ \E c \in 1..Len(sockets) : Open(c)
    \/ \E c \in 1..Len(sockets) : Error(c)
    \/ \E c \in 1..Len(sockets) : Close(c)
    \/ \E t \in 1..Len(timers) : Timeout(t)
    \/ Tick

SpecConnect == InitConnect /\ [][NextConnect]_vars

\* The bodies sent while the reconnect loop is followed to its end: one that
\* renders and one that does not parse.
LiveBodies == {BodyScenario, BodyGarbage}

NextLive ==
    \/ \E c \in 1..Len(sockets) : Open(c)
    \/ \E c \in 1..Len(sockets) : \E text \in LiveBodies : Message(c, text)
    \/ \E c \in 1..Len(sockets) : Error(c)
    \/ \E c \in 1..Len(sockets) : Close(c)
    \/ \E t \in 1..Len(timers) : Timeout(t)
    \/ Tick
    \/ \E k \in 1..Len(cards) : ImgError(k)

\* The reconnect loop under the scheduling the browser provides: time
\* passes, and a timer that is due fires.
SpecLive ==
    /\ Init
    /\ [][NextLive]_vars
    /\ WF_vars(Tick)
    /\ WF_vars(\E t \in 1..Len(timers) : Timeout(t))

(* ------------------------------- claims -------------------------------- *)
\* The sockets that are connecting or open.
LiveSockets == {c \in 1..Len(sockets) : sockets[c].readyState \in {"CONNECTING", "OPEN"}}

\* C1: at most one connection is connecting or open at any time, and a
\* connection is created only after the close event of the one created
\* before it has fired, over every reconnect cycle.
C1_OneLiveSequential ==
    /\ [](Cardinality(LiveSockets) <= 1)
    /\ [][Len(sockets') # Len(sockets) =>
            /\ Len(sockets') = Len(sockets) + 1
            /\ sockets[Len(sockets)].closeFired]_vars

\* Two reconnect cycles have run and the third connection is open.
C1_Witness ==
    /\ Len(sockets) >= 3
    /\ sockets[3].readyState = "OPEN"
    /\ sockets[1].closeFired /\ sockets[2].closeFired

\* C2: a close event, clean or after an error event, schedules exactly one
\* reconnect; the reconnect runs connect() no sooner than ReconnectDelay after
\* that close; an error event schedules nothing and changes nothing else.
C2_CloseSchedulesOneDelayedReconnect ==
    [][/\ \A c \in 1..Len(sockets) :
            (~sockets[c].closeFired /\ sockets'[c].closeFired) =>
                /\ Len(timers') = Len(timers) + 1
                /\ Len(sockets') = Len(sockets)
       /\ \A c \in 1..Len(sockets) :
            (~sockets[c].closePending /\ sockets'[c].closePending) =>
                /\ timers' = timers
                /\ Len(sockets') = Len(sockets)
                /\ UNCHANGED <<ws, gridVars, msgVars>>
       /\ Len(sockets') > Len(sockets) =>
                /\ Len(timers') = Len(timers) - 1
                /\ sockets[Len(sockets)].closeFired
                /\ sockets[Len(sockets)].sinceClose >= ReconnectDelay]_vars

\* A reconnect has happened, the second connection has failed with an error
\* event, and before its close event no timer is pending.
C2_Witness ==
    /\ Len(sockets) = 2
    /\ sockets[1].closeFired /\ sockets[1].sinceClose >= ReconnectDelay
    /\ sockets[2].closePending
    /\ timers = <<>>

\* C3: every close event is eventually followed by a new connection attempt,
\* however many attempts failed before, and a pending reconnect leaves the
\* timer list only by firing (it is never cancelled).
C3_RetriesForever ==
    /\ \A c \in 1..MaxSockets :
          (Len(sockets) >= c /\ sockets[c].closeFired) ~> (Len(sockets) > c)
    /\ [][Len(timers') < Len(timers) => Len(sockets') = Len(sockets) + 1]_vars

\* Two attempts have closed and a third has been made.
C3_Witness ==
    /\ Len(sockets) = 3
    /\ sockets[1].closeFired /\ sockets[2].closeFired
    /\ sockets[3].readyState = "CONNECTING"

\* C4 (as claimed): once a roster has been handed to updateTeam, the grid
\* holds exactly 6 cards, whatever the length of the roster.
C4_AlwaysSixCards == pokemon.kind = "array" => Len(teamGridEl) = SlotCount

\* C5: handling a message whose body does not parse leaves the grid, the
\* cards, the sockets and the timers as they were, and nothing escapes the
\* handler.
C5_MalformedBodyIsDiscarded ==
    [][(received' = received + 1 /\ ~JSONparse(event'.data).ok) =>
            /\ UNCHANGED <<gridVars, connVars>>
            /\ error'.thrown = "SyntaxError"
            /\ ~error'.escaped]_vars

\* A malformed body has been handled on top of a rendered grid, and the
\* socket it came on is still open.
C5_Witness ==
    /\ received > 1
    /\ event.data = BodyGarbage
    /\ Len(teamGridEl) = SlotCount
    /\ sockets[ws].readyState = "OPEN"

\* What the contract says a slot shows: its sprite name and its label.
SlotName(e) == IF e.name = undefined THEN "" ELSE e.name
SlotLabel(e) ==
    IF SlotName(e) = "" THEN "Empty Slot"
    ELSE IF e.nickname = undefined \/ e.nickname = "" THEN e.name
    ELSE e.nickname

\* An array of exactly 6 objects.
Valid6(p) ==
    /\ p.kind = "array"
    /\ Len(p.items) = SlotCount
    /\ \A j \in 1..SlotCount : p.items[j].kind = "object"

\* C6: for a valid 6-entry payload updateTeam leaves exactly 6 cards in the
\* grid, and the card at position i carries the index, sprite name, label and
\* image of entry i.
C6_SixCardsInInputOrder ==
    (received = 1 /\ Valid6(pokemon)) =>
        /\ Len(teamGridEl) = SlotCount
        /\ \A i \in 0..(SlotCount - 1) :
              LET card == cards[teamGridEl[i + 1]]
                  e == pokemon.items[i + 1]
              IN  /\ card.animationDelay = i
                  /\ card.pokemonName = SlotName(e)
                  /\ card.nameEl.textContent = SlotLabel(e)
                  /\ (card.spriteContainer.children = <<>>) <=> (SlotName(e) = "")
                  /\ card.spriteContainer.children # <<>> =>
                        card.spriteContainer.children[1].alt = e.name

\* A valid payload whose entries differ has been rendered over an earlier
\* render.
C6_Witness ==
    /\ received = 1
    /\ Valid6(pokemon)
    /\ pokemon.items[2] # pokemon.items[3]
    /\ Len(cards) > SlotCount
    /\ Len(teamGridEl) = SlotCount

\* The three URLs of the fallback chain of a name, in order.
Chain(name) == <<SpriteUrl(name, ".png"), SpriteUrl(name, ".gif"), SpriteUrl(name, ".jpg")>>

\* Card k has an image whose png, gif and jpg loads have all failed.
AllFailed(k) ==
    /\ cards[k].spriteContainer.children # <<>>
    /\ Len(cards[k].spriteContainer.children[1].errors) >= Len(Chain(cards[k].pokemonName))
    /\ \A j \in 1..Len(Chain(cards[k].pokemonName)) :
          \E m \in 1..Len(cards[k].spriteContainer.children[1].errors) :
              cards[k].spriteContainer.children[1].errors[m] = Chain(cards[k].pokemonName)[j]

\* C7: a slot whose png, gif and jpg loads all failed has its image hidden
\* and its container marked empty, has requested exactly png, gif, jpg in
\* that order, and requests nothing more afterwards.
C7_FallbackEndsInPlaceholder ==
    /\ [](\A k \in 1..Len(cards) :
            AllFailed(k) =>
                /\ cards[k].spriteContainer.children[1].display = "none"
                /\ "empty" \in cards[k].spriteContainer.classList
                /\ cards[k].spriteContainer.children[1].requests = Chain(cards[k].pokemonName)
                /\ ~cards[k].spriteContainer.children[1].loading)
    /\ [][\A k \in 1..Len(cards) :
            AllFailed(k) =>
                cards'[k].spriteContainer.children[1].requests =
                    cards[k].spriteContainer.children[1].requests]_vars

\* Some image has run through its whole chain.
C7_Witness == \E k \in 1..Len(cards) : AllFailed(k)

\* C8 (as claimed): an entry that is missing or undefined at an index 0..5
\* of the array is rendered as an empty slot with the placeholder label, and
\* all 6 positions are rendered.
C8_MissingEntryIsEmptySlot ==
    (received = 1 /\ pokemon.kind = "array") =>
        \A i \in 0..(SlotCount - 1) :
            (At(pokemon, i).kind = "undefined"
             /\ \A j \in 0..(SlotCount - 1) : At(pokemon, j).kind # "null") =>
                /\ Len(teamGridEl) = SlotCount
                /\ cards[teamGridEl[i + 1]].nameEl.textContent = "Empty Slot"
                /\ cards[teamGridEl[i + 1]].spriteContainer.children = <<>>

C10_NamelessSlotIsEmpty ==
    received = 1 =>
        \A j \in 1..Len(teamGridEl) :
            pokemon.items[j].name \in {undefined, ""} =>
                LET card == cards[teamGridEl[j]]
                IN  /\ card.nameEl.textContent = "Empty Slot"
                    /\ card.spriteContainer.children = <<>>
                    /\ "empty" \in card.spriteContainer.classList
                    /\ card.className[2] = "empty"
                    /\ card.nameEl.className[2] = "empty"

\* A slot with an empty name and a nickname has been rendered.
C10_Witness ==
    /\ received = 1
    /\ \E j \in 1..Len(teamGridEl) :
          /\ pokemon.items[j].name \in {undefined, ""}
          /\ pokemon.items[j].nickname = "Sparky"

\* The entry that the card at grid position j (from 1) was built from: the
\* grid holds the cards of the most recent updateTeam call.
EntryOf(j) == pokemon.items[j]

\* The label the contract gives a slot with a name: the nickname when it is
\* present and non-empty, the name otherwise.
NamedLabel(e) ==
    IF e.nickname = undefined \/ e.nickname = "" THEN e.name ELSE e.nickname

\* C11 (as claimed): a displayed slot with a non-empty name is labelled with
\* its nickname when that is present and non-empty and with its name
\* otherwise, and its label is never the placeholder string.
C11_NamedLabelNeverPlaceholder ==
    \A j \in 1..Len(teamGridEl) :
        EntryOf(j).name \notin {undefined, ""} =>
            /\ cards[teamGridEl[j]].nameEl.textContent = NamedLabel(EntryOf(j))
            /\ cards[teamGridEl[j]].nameEl.textContent # "Empty Slot"

\* C11 (amended): a displayed slot with a non-empty name is labelled with its
\* nickname when that is present and non-empty and with its name otherwise,
\* whatever the state of its image; the label reads "Empty Slot" only when
\* that nickname or name is itself that string.
C11_NamedLabelIsNicknameOrName ==
    \A j \in 1..Len(teamGridEl) :
        EntryOf(j).name \notin {undefined, ""} =>
            cards[teamGridEl[j]].nameEl.textContent = NamedLabel(EntryOf(j))

\* A displayed slot with a nickname has run its fallback chain to the end.
C11_Witness ==
    \E j \in 1..Len(teamGridEl) :
        /\ AllFailed(teamGridEl[j])
        /\ EntryOf(j).nickname = "Sparky"
        /\ cards[teamGridEl[j]].nameEl.textContent = "Sparky"

\* C12: every socket, the first and every reconnect, is opened on the /ws
\* path of the page's own host, with wss: exactly when the page was loaded
\* over https: and ws: otherwise.
C12_SocketUrlFollowsPage ==
    \A c \in 1..Len(sockets) :
        /\ sockets[c].url[1] = (IF location.protocol = "https:" THEN "wss:" ELSE "ws:")
        /\ sockets[c].url[2] = "//"
        /\ sockets[c].url[3] = location.host
        /\ sockets[c].url[4] = "/ws"
        /\ Len(sockets[c].url) = 4

\* On a page loaded over https a reconnect has opened a second socket.
C12_Witness ==
    /\ location = [protocol |-> "https:", host |-> "overlay.example:8443"]
    /\ Len(sockets) >= 2
    /\ sockets[2].url = <<"wss:", "//", "overlay.example:8443", "/ws">>

\* C13: the URLs an image has requested are always a non-empty prefix of
\* png, gif, jpg for its slot's name (nothing twice, nothing out of order),
\* also when a load succeeds part-way and the chain stops there; and the
\* image is hidden or its container marked empty only once the jpg request
\* has failed.
C13_RequestsArePrefixOfChain ==
    \A k \in 1..Len(cards) :
        cards[k].spriteContainer.children # <<>> =>
            LET img == cards[k].spriteContainer.children[1]
                chain == Chain(cards[k].pokemonName)
            IN  /\ Len(img.requests) \in 1..Len(chain)
                /\ \A m \in 1..Len(img.requests) : img.requests[m] = chain[m]
                /\ img.src = img.requests[Len(img.requests)]
                /\ (img.display = "none" \/ "empty" \in cards[k].spriteContainer.classList) =>
                      /\ img.errors # <<>>
                      /\ img.errors[Len(img.errors)] = chain[Len(chain)]
                      /\ img.requests = chain

\* An image whose png failed is still on its gif: the load succeeded, or has
\* not failed, part-way down the chain.
C13_Witness ==
    \E k \in 1..Len(cards) :
        /\ cards[k].spriteContainer.children # <<>>
        /\ cards[k].spriteContainer.children[1].requests =
              <<SpriteUrl("eevee", ".png"), SpriteUrl("eevee", ".gif")>>
        /\ cards[k].spriteContainer.children[1].errors = <<SpriteUrl("eevee", ".png")>>
        /\ cards[k].spriteContainer.children[1].display = ""

\* The cards the grid shows, in order.
Shown == [j \in 1..Len(teamGridEl) |-> cards[teamGridEl[j]]]

\* The cards a page that has rendered nothing before shows after the body.
FreshShown(text) ==
    [j \in 1..Len(Rendered(text).grid) |-> Rendered(text).cards[Rendered(text).grid[j]]]

\* C14: right after a valid 6-entry message is handled the grid shows exactly
\* the 6 cards a fresh page would show for that message, whatever was
\* rendered, failed or discarded before: no card of an earlier render is left.
C14_GridDependsOnLastMessageOnly ==
    [][(/\ received' = received + 1
        /\ JSONparse(event'.data).ok
        /\ Valid6(JSONparse(event'.data).pokemon)) =>
            /\ Len(teamGridEl') = SlotCount
            /\ Shown' = FreshShown(event'.data)
            /\ \A j \in 1..Len(teamGridEl') : teamGridEl'[j] > Len(cards)]_vars

\* The scenario roster is shown after an earlier render whose images had
\* begun to fail.
C14_Witness ==
    /\ received = 2
    /\ event.data = BodyScenario
    /\ Len(cards) = SlotCount + SlotCount
    /\ cards[1].spriteContainer.children # <<>>
    /\ cards[1].spriteContainer.children[1].errors # <<>>
    /\ Shown = FreshShown(BodyScenario)

FirstBad(p) ==
    IF p.kind # "array" THEN 0
    ELSE CHOOSE k \in 0..SlotCount :
            /\ \A i \in 0..(k - 1) : i < Len(p.items) /\ p.items[i + 1].kind = "object"
            /\ \/ k = SlotCount
               \/ k >= Len(p.items)
               \/ p.items[k + 1].kind \in {"undefined", "null"}

\* C16: when a body parses to an object whose roster fails at index k < 6,
\* the handler catches the TypeError and sockets and timers are untouched,
\* but the grid is not put back: it holds exactly k cards, all newly built
\* from entries 0..k-1, and none of the cards shown before.
C16_PartialRenderIsLeft ==
    [][(/\ received' = received + 1
        /\ JSONparse(event'.data).ok
        /\ JSONparse(event'.data).kind = "object"
        /\ FirstBad(JSONparse(event'.data).pokemon) < SlotCount) =>
            LET p == JSONparse(event'.data).pokemon
                k == FirstBad(p)
            IN  /\ error' = [thrown |-> "TypeError", escaped |-> FALSE]
                /\ UNCHANGED connVars
                /\ Len(teamGridEl') = k
                /\ Len(cards') = Len(cards) + k
                /\ \A j \in 1..k :
                      /\ teamGridEl'[j] = Len(cards) + j
                      /\ cards'[teamGridEl'[j]].animationDelay = j - 1
                      /\ cards'[teamGridEl'[j]].nameEl.textContent = SlotLabel(p.items[j])
                /\ \A c \in 1..Len(cards) : cards'[c] = cards[c]]_vars

\* Over a rendered scenario roster, a roster with null at index 2 has left
\* two cards in the grid, on a socket that is still open.
C16_Witness ==
    /\ received = 2
    /\ event.data = BodyNullEntry
    /\ error.thrown = "TypeError"
    /\ Len(teamGridEl) = 2
    /\ Len(cards) = SlotCount + 2
    /\ sockets[ws].readyState = "OPEN"

\* The cards that are in the grid.
Displayed == {teamGridEl[j] : j \in 1..Len(teamGridEl)}

\* C17: a step in which an image error changes a card changes that one card
\* only, and of it only the sprite container (the image and the container's
\* class list); every other card, attached or detached, with the same name or
\* another, is as before, and when the card is one an earlier render left
\* behind, the displayed grid is unchanged.
C17_ImageErrorIsLocal ==
    [][(cards' # cards /\ Len(cards') = Len(cards)) =>
          \E k \in 1..Len(cards) :
              /\ \A c \in 1..Len(cards) : c # k => cards'[c] = cards[c]
              /\ [cards'[k] EXCEPT !.spriteContainer = cards[k].spriteContainer] = cards[k]
              /\ cards'[k].spriteContainer.className = cards[k].spriteContainer.className
              /\ Len(cards'[k].spriteContainer.children) = 1
              /\ UNCHANGED <<teamGridEl, connVars, msgVars>>
              /\ k \notin Displayed => Shown' = Shown]_vars

\* The twins are displayed, the first on its jpg and the second still on its
\* png, while an image of the render before them has failed for good.
C17_Witness ==
    /\ received = 2
    /\ event.data = BodyTwins
    /\ Len(cards) = SlotCount + SlotCount
    /\ AllFailed(1)
    /\ 1 \notin Displayed
    /\ cards[teamGridEl[1]].pokemonName = cards[teamGridEl[2]].pokemonName
    /\ Len(cards[teamGridEl[1]].spriteContainer.children[1].requests) = 3
    /\ Len(cards[teamGridEl[2]].spriteContainer.children[1].requests) = 1

\* The sockets whose close event has been dispatched.
ClosedSockets == {c \in 1..Len(sockets) : sockets[c].closeFired}

\* C18: at most one reconnect timer is pending, none while a socket is
\* connecting or open; a socket is created exactly when a timer fires, one
\* per firing, so the sockets created are one more than the timers fired
\* (the timers scheduled, one per close event, less the one pending).
C18_OneTimerAndSocketCount ==
    /\ [](/\ Len(timers) <= 1
          /\ LiveSockets # {} => timers = <<>>
          /\ Len(sockets) = 1 + (Cardinality(ClosedSockets) - Len(timers)))
    /\ [][/\ Len(timers') < Len(timers) <=> Len(sockets') > Len(sockets)
          /\ Len(sockets') > Len(sockets) =>
                /\ Len(sockets') = Len(sockets) + 1
                /\ Len(timers') = Len(timers) - 1]_vars

\* The second socket has closed too and its reconnect timer is due: one timer
\* pending, no socket connecting or open.
C18_Witness ==
    /\ Len(sockets) = 2
    /\ LiveSockets = {}
    /\ Cardinality(ClosedSockets) = 2
    /\ timers = <<[left |-> 0]>>

====
